---- MODULE Spec2Model ----
(***************************************************************************)
(* Model of the MyDuka backend: the session authority (auth/login.py), the *)
(* permission decorators (auth/permissions.py), the product catalog        *)
(* (models/products.py), the inventory ledger (models/inventory.py) and    *)
(* the clerk account resources (models/clerk.py).                          *)
(*                                                                         *)
(* A request body is a function from JSON keys to JSON literals; a JSON    *)
(* literal is written as its text ("1", "-1", "true", "null", "abc" for a  *)
(* non-numeric string, "[1]" for a list, "{}" for an object).  An optional *)
(* integer column holds NoneId for NULL.                                   *)
(* Every handler is one action.  A handler that returns before             *)
(* db.session.commit() leaves the stored rows as they were: the request's  *)
(* session is discarded with its uncommitted assignments.                  *)
(* Timestamps (created_at, updated_at, date_recorded) are not modelled.    *)
(***************************************************************************)
EXTENDS Integers, FiniteSets, Sequences, TLC

\* ------------------------------------------------------------------ bounds
MaxRecordId == 1
MaxProductId == 2
MaxFields == 2
MaxJti == 4
MaxInFlight == 2
MaxClerkId == 3

NoneId == 0

\* ------------------------------------------------------- JSON and Python
IntLiterals == {"-1", "0", "1", "2"}

\* The integer a numeric JSON literal denotes.
LitValue(v) ==
    CASE v = "-1" -> 0 - 1
      [] v = "0" -> 0
      [] v = "1" -> 1
      [] v = "2" -> 2
      [] OTHER -> 0

\* Python's int(x) / float(x): a number or numeric string converts, a bool
\* converts to 0/1, a non-numeric string raises ValueError, None, a list
\* or a dict raises TypeError.
PyNumber(v) ==
    IF v \in IntLiterals THEN [err |-> "", val |-> LitValue(v)]
    ELSE IF v = "true" THEN [err |-> "", val |-> 1]
    ELSE IF v = "false" THEN [err |-> "", val |-> 0]
    ELSE IF v \in {"null", "[1]", "{}"} THEN [err |-> "TypeError", val |-> 0]
    ELSE [err |-> "ValueError", val |-> 0]

\* Python truthiness of a JSON value.
Truthy(v) == v \notin {"null", "0", "false", "", "{}"}

\* dict.get(key, default)
Get(data, key, default) == IF key \in DOMAIN data THEN data[key] ELSE default

\* All request bodies with at most n keys; vals[k] is the set of literals
\* tried for key k.
BodiesOf(vals, n) ==
    LET keysets == {ks \in SUBSET DOMAIN vals : Cardinality(ks) <= n}
        all == UNION {[ks -> UNION {vals[k] : k \in ks}] : ks \in keysets}
    IN {d \in all : \A k \in DOMAIN d : d[k] \in vals[k]}

\* ------------------------------------------------------------------ state
VARIABLES
    merchants,        \* id -> [email, is_active, is_superuser]
    admins,           \* id -> [email, is_active, merchant_id, store_id]
    clerks,           \* id -> [email, is_active, admin_id, store_id]
    stores,           \* set of store ids
    products,         \* id -> product row
    next_product_id,  \* the products table's id sequence
    inventory,        \* id -> inventory_records row
    next_record_id,   \* the inventory_records table's id sequence
    tokens,           \* the JWTs issued so far
    next_jti,         \* stands for the fresh uuid of the next token
    expired,          \* jtis of tokens whose lifetime has passed
    blacklist,        \* auth/login.py: blacklist
    creating,         \* product creates between validation and commit
    next_clerk_id,    \* the clerks table's id sequence
    updating,         \* inventory updates between their load and commit
    receiving         \* inventory creates between their checks and commit

vars == <<merchants, admins, clerks, stores, products, next_product_id,
          inventory, next_record_id, tokens, next_jti, expired, blacklist,
          creating, next_clerk_id, updating, receiving>>

identityVars == <<merchants, admins, stores>>
sessionVars == <<tokens, next_jti, expired, blacklist>>

\* ------------------------------------------------------- identity tables
\* Model.query.get(id): the row, or None.
Found(table, id) == id \in DOMAIN table

InitMerchants ==
    (1 :> [email |-> "m1", is_active |-> TRUE, is_superuser |-> TRUE]) @@
    (2 :> [email |-> "m2", is_active |-> TRUE, is_superuser |-> TRUE])

\* admins.store_id and clerks.store_id are the nullable columns the
\* inventory handlers read (admin.store_id, clerk.store_id).
InitAdmins ==
    (1 :> [email |-> "a1", is_active |-> TRUE, merchant_id |-> 1, store_id |-> 1]) @@
    (2 :> [email |-> "a2", is_active |-> TRUE, merchant_id |-> 2, store_id |-> NoneId])

InitClerks ==
    (1 :> [email |-> "c1", is_active |-> TRUE, admin_id |-> 1, store_id |-> 1]) @@
    (2 :> [email |-> "c2", is_active |-> TRUE, admin_id |-> 2, store_id |-> NoneId])

InitStores == {1, 2}

\* ---------------------------------------------------------------- tokens
Token(jti, sub, user_type, kind) ==
    [jti |-> jti, sub |-> sub, user_type |-> user_type, kind |-> kind]

\* @jwt.token_in_blocklist_loader
check_if_token_in_blacklist(jwt_payload) == jwt_payload.jti \in blacklist

\* What jwt_required() verifies of a presented token: issued by this
\* application, of the required kind, unexpired, not in the blocklist.
Validate(tok, kind) ==
    /\ tok \in tokens
    /\ tok.kind = kind
    /\ tok.jti \notin expired
    /\ ~check_if_token_in_blacklist(tok)

\* One access token per account, as after each account has logged in once.
LoggedInTokens ==
    {Token(1, 1, "merchant", "access"), Token(2, 2, "merchant", "access"),
     Token(3, 1, "admin", "access"), Token(4, 2, "admin", "access"),
     Token(5, 1, "clerk", "access"), Token(6, 2, "clerk", "access")}

\* The account row a token's subject and user_type claim name.
Account(tok) ==
    CASE tok.user_type = "merchant" -> merchants[tok.sub]
      [] tok.user_type = "admin" -> admins[tok.sub]
      [] OTHER -> clerks[tok.sub]

HasAccount(tok) ==
    CASE tok.user_type = "merchant" -> Found(merchants, tok.sub)
      [] tok.user_type = "admin" -> Found(admins, tok.sub)
      [] OTHER -> Found(clerks, tok.sub)

\* ----------------------------------------------------------- permissions
\* auth/permissions.py: looks the identity up in the merchants table.
merchant_required(tok) ==
    Found(merchants, tok.sub) /\ merchants[tok.sub].is_superuser

\* auth/permissions.py: looks the identity up in the admins table.
admin_required(tok) == Found(admins, tok.sub)

\* Imported by the handlers but not defined in auth/permissions.py:
\* the Clerk principal of the access table, resolved from the role claim.
clerk_required(tok) ==
    /\ tok.user_type = "clerk"
    /\ Found(clerks, tok.sub)
    /\ clerks[tok.sub].is_active

\* ------------------------------------------------------ inventory ledger
\* NewRecord with the spoilt items left in stock.
NewRecordSpoiltInStock(product_id, store_id, clerk_id, quantity_received, items_spoilt, payment_status, product) ==
    [product_id |-> product_id,
     store_id |-> store_id,
     clerk_id |-> clerk_id,
     quantity_received |-> quantity_received,
     items_in_stock |-> quantity_received,
     items_spoilt |-> items_spoilt,
     payment_status |-> payment_status,
     buying_price_at_record |-> product.buying_price,
     selling_price_at_record |-> product.selling_price]

\* models/inventory.py, Inventory(...) in InventoryListResource.post
NewRecord(product_id, store_id, clerk_id, quantity_received, items_spoilt, payment_status, product) ==
    [product_id |-> product_id,
     store_id |-> store_id,
     clerk_id |-> clerk_id,
     quantity_received |-> quantity_received,
     items_in_stock |-> quantity_received - items_spoilt,
     items_spoilt |-> items_spoilt,
     payment_status |-> payment_status,
     buying_price_at_record |-> product.buying_price,
     selling_price_at_record |-> product.selling_price]

\* The response of a handler and the table it leaves behind.
Reply(code, table) == [code |-> code, table |-> table]

\* ClerkStoreMismatch that lets a clerk record for any store.
ClerkStoreAny(clerk, store_id) == FALSE

\* InventoryListResource.post: "if clerk.store_id and clerk.store_id !=
\* store_id"
ClerkStoreMismatch(clerk, store_id) ==
    clerk.store_id # NoneId /\ clerk.store_id # store_id

\* InventoryListResource.post, after jwt_required()
InventoryPostResult(tok, data) ==
    LET product_id == Get(data, "product_id", "null")
        store_id == Get(data, "store_id", "null")
        quantity_received == Get(data, "quantity_received", "null")
        items_spoilt == Get(data, "items_spoilt", "0")
        payment_status == Get(data, "payment_status", "false")
        pid == PyNumber(product_id)
        sid == PyNumber(store_id)
        qty == PyNumber(quantity_received)
        spo == PyNumber(items_spoilt)
        parsed == <<pid, sid, qty, spo>>
        firstErr == CHOOSE i \in 1..5 :
                       /\ i = 5 \/ parsed[i].err # ""
                       /\ \A j \in 1..(i - 1) : parsed[j].err = ""
    IN
    IF ~clerk_required(tok) THEN Reply(403, inventory)
    ELSE IF ~Found(clerks, tok.sub) THEN Reply(404, inventory)
    ELSE IF ~(Truthy(product_id) /\ Truthy(store_id) /\ quantity_received # "null")
        THEN Reply(400, inventory)
    ELSE IF firstErr < 5
        THEN Reply(IF parsed[firstErr].err = "ValueError" THEN 400 ELSE 500, inventory)
    ELSE IF qty.val < 0 \/ spo.val < 0 THEN Reply(400, inventory)
    ELSE IF ~Found(products, pid.val) THEN Reply(404, inventory)
    ELSE IF sid.val \notin stores THEN Reply(404, inventory)
    ELSE IF ClerkStoreMismatch(clerks[tok.sub], sid.val) THEN Reply(403, inventory)
    ELSE Reply(201,
               (next_record_id :>
                    NewRecord(pid.val, sid.val, tok.sub, qty.val, spo.val,
                              payment_status = "true", products[pid.val]))
               @@ inventory)

InventoryPost(tok, data) ==
    /\ Validate(tok, "access")
    /\ LET r == InventoryPostResult(tok, data)
       IN /\ r.code = 201 => next_record_id <= MaxRecordId
          /\ inventory' = r.table
          /\ next_record_id' = IF r.code = 201 THEN next_record_id + 1
                                ELSE next_record_id
    /\ UNCHANGED <<identityVars, updating, receiving, creating, next_clerk_id, clerks, products, next_product_id, sessionVars>>

\* InventoryListResource.post run by concurrent requests.  A request that
\* has passed the checks holds the row it built in receiving until its
\* db.session.commit(); other requests commit in between.
InventoryPostBegin(tok, data) ==
    /\ Validate(tok, "access")
    /\ InventoryPostResult(tok, data).code = 201
    /\ Cardinality(receiving) < MaxInFlight
    /\ receiving' = receiving \cup {InventoryPostResult(tok, data).table[next_record_id]}
    /\ UNCHANGED <<identityVars, updating, creating, next_clerk_id, clerks, products,
                   next_product_id, inventory, next_record_id, sessionVars>>

\* The INSERT of InventoryListResource.post.  The row's foreign keys
\* (products.id, stores.id, clerks.id) are checked by the database: a row
\* whose product, store or clerk is gone by then raises IntegrityError,
\* caught by "except Exception" and answered 500.
InventoryPostCommitResult(rec) ==
    IF \/ ~Found(products, rec.product_id)
       \/ rec.store_id \notin stores
       \/ ~Found(clerks, rec.clerk_id)
    THEN Reply(500, inventory)
    ELSE Reply(201, (next_record_id :> rec) @@ inventory)

\* The id sequence advances whether or not the INSERT succeeds.
InventoryPostCommit(rec) ==
    /\ rec \in receiving
    /\ next_record_id <= MaxRecordId
    /\ inventory' = InventoryPostCommitResult(rec).table
    /\ next_record_id' = next_record_id + 1
    /\ receiving' = receiving \ {rec}
    /\ UNCHANGED <<identityVars, updating, creating, next_clerk_id, clerks, products,
                   next_product_id, sessionVars>>

\* One "if key in data: try: record.key = int(data[key]) ..." block of
\* InventoryResource.put.  st is the handler's progress: ret is 0 while it
\* runs and the status code once it has returned; rec is the session's
\* copy of the row.
AssignNumber(st, data, key) ==
    IF st.ret # 0 \/ key \notin DOMAIN data THEN st
    ELSE LET p == PyNumber(data[key])
             rec == [st.rec EXCEPT ![key] = p.val]
         IN IF p.err = "ValueError" THEN [ret |-> 400, rec |-> st.rec]
            ELSE IF p.err = "TypeError" THEN [ret |-> 500, rec |-> st.rec]
            ELSE IF p.val < 0 THEN [ret |-> 400, rec |-> rec]
            ELSE [ret |-> 0, rec |-> rec]

\* "if 'payment_status' in data: record.payment_status = data[...]"
AssignPayment(st, data) ==
    IF st.ret # 0 \/ "payment_status" \notin DOMAIN data THEN st
    ELSE [ret |-> 0,
          rec |-> [st.rec EXCEPT !.payment_status = (data["payment_status"] = "true")]]

AdminDenied == {"quantity_received", "items_in_stock", "items_spoilt",
                "buying_price_at_record", "selling_price_at_record"}

ClerkDenied == {"payment_status", "quantity_received",
                "buying_price_at_record", "selling_price_at_record"}

\* PutAsAdmin that also applies items_in_stock.
PutAsAdminWithStock(tok, record, data) ==
    IF ~Found(admins, tok.sub)
       \/ (admins[tok.sub].store_id # NoneId
           /\ admins[tok.sub].store_id # record.store_id)
        THEN [ret |-> 403, rec |-> record]
    ELSE IF "payment_status" \in DOMAIN data
        THEN AssignPayment(AssignNumber([ret |-> 0, rec |-> record], data,
                                        "items_in_stock"), data)
    ELSE [ret |-> 400, rec |-> record]

\* InventoryResource.put, the admin branch
PutAsAdmin(tok, record, data) ==
    IF ~Found(admins, tok.sub)
       \/ (admins[tok.sub].store_id # NoneId
           /\ admins[tok.sub].store_id # record.store_id)
        THEN [ret |-> 403, rec |-> record]
    ELSE IF DOMAIN data \cap AdminDenied # {} THEN [ret |-> 403, rec |-> record]
    ELSE IF "payment_status" \in DOMAIN data
        THEN AssignPayment([ret |-> 0, rec |-> record], data)
    ELSE [ret |-> 400, rec |-> record]

\* PutAsClerk without the test of the record's clerk_id.
PutAsClerkAnyRecord(tok, record, data) ==
    IF ~Found(clerks, tok.sub) THEN [ret |-> 403, rec |-> record]
    ELSE IF DOMAIN data \cap ClerkDenied # {} THEN [ret |-> 403, rec |-> record]
    ELSE LET s1 == AssignNumber([ret |-> 0, rec |-> record], data, "items_in_stock")
             s2 == AssignNumber(s1, data, "items_spoilt")
         IN IF s2.ret # 0 THEN s2
            ELSE IF DOMAIN data \cap {"items_in_stock", "items_spoilt"} = {}
                THEN [ret |-> 400, rec |-> s2.rec]
            ELSE s2

\* InventoryResource.put, the clerk branch
PutAsClerk(tok, record, data) ==
    IF ~Found(clerks, tok.sub) \/ tok.sub # record.clerk_id
        THEN [ret |-> 403, rec |-> record]
    ELSE IF DOMAIN data \cap ClerkDenied # {} THEN [ret |-> 403, rec |-> record]
    ELSE LET s1 == AssignNumber([ret |-> 0, rec |-> record], data, "items_in_stock")
             s2 == AssignNumber(s1, data, "items_spoilt")
         IN IF s2.ret # 0 THEN s2
            ELSE IF DOMAIN data \cap {"items_in_stock", "items_spoilt"} = {}
                THEN [ret |-> 400, rec |-> s2.rec]
            ELSE s2

\* InventoryResource.put, the merchant branch: "can update anything"
PutAsMerchant(tok, record, data) ==
    LET s1 == AssignNumber([ret |-> 0, rec |-> record], data, "quantity_received")
        s2 == AssignNumber(s1, data, "items_in_stock")
        s3 == AssignNumber(s2, data, "items_spoilt")
        s4 == AssignPayment(s3, data)
        s5 == AssignNumber(s4, data, "buying_price_at_record")
    IN AssignNumber(s5, data, "selling_price_at_record")

\* InventoryResource.put, from the permission checks to the return or the
\* commit: the status returned (0 when the commit is reached) and the
\* session's copy of the row at that point.
InventoryPutSteps(tok, record, data) ==
    CASE tok.user_type = "merchant" -> PutAsMerchant(tok, record, data)
      [] tok.user_type = "admin" -> PutAsAdmin(tok, record, data)
      [] tok.user_type = "clerk" -> PutAsClerk(tok, record, data)
      [] OTHER -> [ret |-> 403, rec |-> record]

\* InventoryResource.put, after jwt_required(): the row is written by the
\* final db.session.commit() only.
InventoryPutResult(tok, record_id, data) ==
    IF ~Found(inventory, record_id) THEN Reply(404, inventory)
    ELSE LET record == inventory[record_id]
             st == InventoryPutSteps(tok, record, data)
         IN IF st.ret # 0 THEN Reply(st.ret, inventory)
            ELSE Reply(200, [inventory EXCEPT ![record_id] = st.rec])

InventoryPut(tok, record_id, data) ==
    /\ Validate(tok, "access")
    /\ inventory' = InventoryPutResult(tok, record_id, data).table
    /\ UNCHANGED <<identityVars, updating, receiving, creating, next_clerk_id, clerks, products, next_product_id,
                   next_record_id, sessionVars>>

\* The columns the session's UPDATE sets: the attributes whose value
\* differs from the one loaded.
Modified(loaded, rec) == {f \in DOMAIN rec : rec[f] # loaded[f]}

\* InventoryResource.put run by concurrent requests.  A request that has
\* loaded its row (Inventory.query.get) and passed the checks holds the
\* session's copy in updating until its db.session.commit(); other
\* requests commit in between.
InventoryPutBegin(tok, record_id, data) ==
    /\ Validate(tok, "access")
    /\ Found(inventory, record_id)
    /\ InventoryPutSteps(tok, inventory[record_id], data).ret = 0
    /\ Cardinality(updating) < MaxInFlight
    /\ updating' = updating \cup
          {[record_id |-> record_id,
            loaded |-> inventory[record_id],
            rec |-> InventoryPutSteps(tok, inventory[record_id], data).rec]}
    /\ UNCHANGED <<identityVars, receiving, creating, next_clerk_id, clerks, products,
                   next_product_id, inventory, next_record_id, sessionVars>>

\* The commit of InventoryResource.put and the record.to_dict() of its
\* response.  The UPDATE of a row that a concurrent delete has removed
\* matches no row (StaleDataError), and without an UPDATE to_dict() reloads
\* the expired object of a row that is gone (ObjectDeletedError): either
\* is caught by "except Exception" and answered 500.
InventoryPutCommitResult(req) ==
    IF ~Found(inventory, req.record_id) THEN Reply(500, inventory)
    ELSE Reply(200,
               [inventory EXCEPT ![req.record_id] =
                   [f \in DOMAIN req.rec |->
                       IF f \in Modified(req.loaded, req.rec) THEN req.rec[f]
                       ELSE inventory[req.record_id][f]]])

InventoryPutCommit(req) ==
    /\ req \in updating
    /\ inventory' = InventoryPutCommitResult(req).table
    /\ updating' = updating \ {req}
    /\ UNCHANGED <<identityVars, receiving, creating, next_clerk_id, clerks, products,
                   next_product_id, next_record_id, sessionVars>>

\* InventoryResource.get, after jwt_required(): the status code.
InventoryGetResult(tok, record_id) ==
    IF ~Found(inventory, record_id) THEN 404
    ELSE LET record == inventory[record_id]
         IN CASE tok.user_type = "merchant" -> 200
              [] tok.user_type = "admin" ->
                    IF ~Found(admins, tok.sub)
                       \/ (admins[tok.sub].store_id # NoneId
                           /\ admins[tok.sub].store_id # record.store_id)
                    THEN 403 ELSE 200
              [] tok.user_type = "clerk" ->
                    IF ~Found(clerks, tok.sub) \/ tok.sub # record.clerk_id
                    THEN 403 ELSE 200
              [] OTHER -> 403

InventoryGet(tok, record_id) ==
    /\ Validate(tok, "access")
    /\ InventoryGetResult(tok, record_id) \in {200, 403, 404}
    /\ UNCHANGED vars

\* InventoryListResult that filters by the admin's store, assigned or not.
InventoryListResultFiltered(tok) ==
    CASE tok.user_type = "admin" ->
            IF ~Found(admins, tok.sub) THEN [code |-> 404, ids |-> {}]
            ELSE [code |-> 200,
                  ids |-> {i \in DOMAIN inventory :
                             inventory[i].store_id = admins[tok.sub].store_id}]
      [] tok.user_type = "clerk" ->
            IF ~Found(clerks, tok.sub) THEN [code |-> 404, ids |-> {}]
            ELSE [code |-> 200,
                  ids |-> {i \in DOMAIN inventory : inventory[i].clerk_id = tok.sub}]
      [] tok.user_type = "merchant" -> [code |-> 200, ids |-> DOMAIN inventory]
      [] OTHER -> [code |-> 403, ids |-> {}]

\* InventoryListResource.get, after jwt_required(): the status code and
\* the ids of the records listed.
InventoryListResult(tok) ==
    CASE tok.user_type = "admin" ->
            IF ~Found(admins, tok.sub) THEN [code |-> 404, ids |-> {}]
            ELSE IF admins[tok.sub].store_id # NoneId
                THEN [code |-> 200,
                      ids |-> {i \in DOMAIN inventory :
                                 inventory[i].store_id = admins[tok.sub].store_id}]
            ELSE [code |-> 403, ids |-> {}]
      [] tok.user_type = "clerk" ->
            IF ~Found(clerks, tok.sub) THEN [code |-> 404, ids |-> {}]
            ELSE [code |-> 200,
                  ids |-> {i \in DOMAIN inventory : inventory[i].clerk_id = tok.sub}]
      [] tok.user_type = "merchant" -> [code |-> 200, ids |-> DOMAIN inventory]
      [] OTHER -> [code |-> 403, ids |-> {}]

InventoryList(tok) ==
    /\ Validate(tok, "access")
    /\ InventoryListResult(tok).code \in {200, 403, 404}
    /\ UNCHANGED vars

\* InventoryResource.delete, after jwt_required()
InventoryDeleteResult(tok, record_id) ==
    IF ~merchant_required(tok) THEN Reply(403, inventory)
    ELSE IF ~Found(inventory, record_id) THEN Reply(404, inventory)
    ELSE Reply(204, [i \in DOMAIN inventory \ {record_id} |-> inventory[i]])

InventoryDelete(tok, record_id) ==
    /\ Validate(tok, "access")
    /\ inventory' = InventoryDeleteResult(tok, record_id).table
    /\ UNCHANGED <<identityVars, updating, receiving, creating, next_clerk_id, clerks, products, next_product_id,
                   next_record_id, sessionVars>>

\* -------------------------------------------------------- product catalog
\* NameTaken of a column declared without unique=True.
NameTakenNever(name, except_id) == FALSE

\* The unique constraint on products.name, checked by the commit.
NameTaken(name, except_id) ==
    \E i \in DOMAIN products : i # except_id /\ products[i].name = name

\* ProductListResource.get, after jwt_required(): the status code.
ProductListResult(tok) ==
    IF tok.user_type \notin {"merchant", "admin", "clerk"} THEN 403 ELSE 200

ProductList(tok) ==
    /\ Validate(tok, "access")
    /\ ProductListResult(tok) \in {200, 403}
    /\ UNCHANGED vars

\* ProductResource.get, after jwt_required(): the status code.
ProductGetResult(tok, product_id) ==
    IF tok.user_type \notin {"merchant", "admin", "clerk"} THEN 403
    ELSE IF ~Found(products, product_id) THEN 404
    ELSE 200

ProductGet(tok, product_id) ==
    /\ Validate(tok, "access")
    /\ ProductGetResult(tok, product_id) \in {200, 403, 404}
    /\ UNCHANGED vars

\* ProductListResource.post, after jwt_required()
ProductPostResult(tok, data) ==
    LET name == Get(data, "name", "null")
        description == Get(data, "description", "null")
        buying_price == Get(data, "buying_price", "null")
        selling_price == Get(data, "selling_price", "null")
        bp == PyNumber(buying_price)
        sp == PyNumber(selling_price)
        err == IF bp.err # "" THEN bp.err ELSE sp.err
    IN
    IF tok.user_type \notin {"merchant", "admin"} THEN Reply(403, products)
    ELSE IF ~(Truthy(name) /\ Truthy(buying_price) /\ selling_price # "null")
        THEN Reply(400, products)
    ELSE IF err # "" THEN Reply(IF err = "ValueError" THEN 400 ELSE 500, products)
    ELSE IF bp.val < 0 \/ sp.val < 0 THEN Reply(400, products)
    ELSE IF tok.user_type = "admin" /\ ~Found(admins, tok.sub)
        THEN Reply(404, products)
    ELSE IF NameTaken(name, NoneId) THEN Reply(409, products)
    ELSE Reply(201,
               (next_product_id :>
                    [name |-> name,
                     description |-> description,
                     buying_price |-> bp.val,
                     selling_price |-> sp.val,
                     merchant_id |-> IF tok.user_type = "merchant" THEN tok.sub
                                     ELSE admins[tok.sub].merchant_id,
                     is_active |-> TRUE])
               @@ products)

ProductPost(tok, data) ==
    /\ Validate(tok, "access")
    /\ LET r == ProductPostResult(tok, data)
       IN /\ r.code = 201 => next_product_id <= MaxProductId
          /\ products' = r.table
          /\ next_product_id' = IF r.code = 201 THEN next_product_id + 1
                                 ELSE next_product_id
    /\ UNCHANGED <<identityVars, updating, receiving, creating, next_clerk_id, clerks, inventory, next_record_id, sessionVars>>

\* ProductListResource.post run by concurrent requests.  A request that has
\* passed the role test and the validation (they read no product) is in
\* creating until its db.session.commit(), where the unique constraint
\* decides between 201 and 409; other requests commit in between.
ProductPostBegin(tok, data) ==
    /\ Validate(tok, "access")
    /\ ProductPostResult(tok, data).code \in {201, 409}
    /\ Cardinality(creating) < MaxInFlight
    /\ [tok |-> tok, data |-> data] \notin creating
    /\ creating' = creating \cup {[tok |-> tok, data |-> data]}
    /\ UNCHANGED <<identityVars, updating, receiving, next_clerk_id, clerks, products,
                   next_product_id, inventory, next_record_id, sessionVars>>

ProductPostCommit(req) ==
    /\ req \in creating
    /\ LET r == ProductPostResult(req.tok, req.data)
       IN /\ r.code = 201 => next_product_id <= MaxProductId
          /\ products' = r.table
          /\ next_product_id' = IF r.code = 201 THEN next_product_id + 1
                                 ELSE next_product_id
    /\ creating' = creating \ {req}
    /\ UNCHANGED <<identityVars, updating, receiving, next_clerk_id, clerks, inventory,
                   next_record_id, sessionVars>>

\* One "if price is not None: try: price = float(price) ..." block of
\* ProductResource.put.
AssignPrice(st, data, key) ==
    IF st.ret # 0 \/ key \notin DOMAIN data \/ data[key] = "null" THEN st
    ELSE LET p == PyNumber(data[key])
         IN IF p.err = "ValueError" THEN [ret |-> 400, rec |-> st.rec]
            ELSE IF p.err = "TypeError" THEN [ret |-> 500, rec |-> st.rec]
            ELSE IF p.val < 0 THEN [ret |-> 400, rec |-> st.rec]
            ELSE [ret |-> 0, rec |-> [st.rec EXCEPT ![key] = p.val]]

\* ProductResource.put, the assignments to the session's copy of the row.
ProductPutSteps(product, data) ==
    LET name == Get(data, "name", product.name)
        description == Get(data, "description", product.description)
        p1 == IF Truthy(name) THEN [product EXCEPT !.name = name] ELSE product
        p2 == IF description # "null" THEN [p1 EXCEPT !.description = description]
              ELSE p1
        s3 == AssignPrice([ret |-> 0, rec |-> p2], data, "buying_price")
        s4 == AssignPrice(s3, data, "selling_price")
    IN IF s4.ret # 0 \/ "is_active" \notin DOMAIN data
          \/ data["is_active"] \notin {"true", "false"}
       THEN s4
       ELSE [ret |-> 0, rec |-> [s4.rec EXCEPT !.is_active = (data["is_active"] = "true")]]

\* ProductPutResult that lets every registered Admin update.
ProductPutResultAnyAdmin(tok, product_id, data) ==
    IF tok.user_type \notin {"merchant", "admin"} THEN Reply(403, products)
    ELSE IF ~Found(products, product_id) THEN Reply(404, products)
    ELSE IF tok.user_type = "merchant" /\ products[product_id].merchant_id # tok.sub
        THEN Reply(403, products)
    ELSE IF tok.user_type = "admin" /\ ~Found(admins, tok.sub)
        THEN Reply(403, products)
    ELSE LET st == ProductPutSteps(products[product_id], data)
         IN IF st.ret # 0 THEN Reply(st.ret, products)
            ELSE IF NameTaken(st.rec.name, product_id) THEN Reply(409, products)
            ELSE Reply(200, [products EXCEPT ![product_id] = st.rec])

\* ProductResource.put, after jwt_required()
ProductPutResult(tok, product_id, data) ==
    IF tok.user_type \notin {"merchant", "admin"} THEN Reply(403, products)
    ELSE IF ~Found(products, product_id) THEN Reply(404, products)
    ELSE IF tok.user_type = "merchant" /\ products[product_id].merchant_id # tok.sub
        THEN Reply(403, products)
    ELSE IF tok.user_type = "admin"
            /\ (~Found(admins, tok.sub)
                \/ products[product_id].merchant_id # admins[tok.sub].merchant_id)
        THEN Reply(403, products)
    ELSE LET st == ProductPutSteps(products[product_id], data)
         IN IF st.ret # 0 THEN Reply(st.ret, products)
            ELSE IF NameTaken(st.rec.name, product_id) THEN Reply(409, products)
            ELSE Reply(200, [products EXCEPT ![product_id] = st.rec])

\* ProductPutCommit with the records' prices following the catalog.
ProductPutCommitRepricing(table) ==
    /\ products' = table
    /\ inventory' =
          [i \in DOMAIN inventory |->
              [inventory[i] EXCEPT
                  !.buying_price_at_record = table[inventory[i].product_id].buying_price,
                  !.selling_price_at_record = table[inventory[i].product_id].selling_price]]
    /\ UNCHANGED next_record_id

\* What the commit of ProductResource.put writes: the products row only.
ProductPutCommit(table) ==
    /\ products' = table
    /\ UNCHANGED <<inventory, next_record_id>>

ProductPut(tok, product_id, data) ==
    /\ Validate(tok, "access")
    /\ ProductPutCommit(ProductPutResult(tok, product_id, data).table)
    /\ UNCHANGED <<identityVars, updating, receiving, creating, next_clerk_id, clerks, next_product_id, sessionVars>>

\* ProductResource.delete, after jwt_required()
ProductDeleteResult(tok, product_id) ==
    IF ~merchant_required(tok) THEN Reply(403, products)
    ELSE IF ~Found(products, product_id) THEN Reply(404, products)
    ELSE IF products[product_id].merchant_id # tok.sub THEN Reply(403, products)
    ELSE Reply(204, [i \in DOMAIN products \ {product_id} |-> products[i]])

\* CascadeProducts with a foreign key that has no ondelete rule.
CascadeNothing(table) == inventory

\* inventory_records.product_id: ForeignKey('products.id', ondelete='CASCADE')
CascadeProducts(table) ==
    [i \in {j \in DOMAIN inventory : inventory[j].product_id \in DOMAIN table}
        |-> inventory[i]]

ProductDelete(tok, product_id) ==
    /\ Validate(tok, "access")
    /\ LET r == ProductDeleteResult(tok, product_id)
       IN /\ products' = r.table
          /\ inventory' = CascadeProducts(r.table)
    /\ UNCHANGED <<identityVars, updating, receiving, creating, next_clerk_id, clerks, next_product_id, next_record_id,
                   sessionVars>>

\* --------------------------------------------------------- clerk accounts
\* utils/validators.py: validate_email and validate_password accept the
\* literals that stand for a well-formed address and a strong password.
validate_email(email) == email \in {"m1", "a1", "c1", "c2", "c3", "nobody"}

validate_password(password) == password = "Str0ng!pw"

\* The unique constraint on clerks.email, checked by the commit.
EmailTaken(email) == \E i \in DOMAIN clerks : clerks[i].email = email

\* ClerkRegistrationByAdmin.post, after jwt_required()
ClerkRegistrationResult(tok, data) ==
    LET username == Get(data, "username", "null")
        email == Get(data, "email", "null")
        password == Get(data, "password", "null")
    IN
    IF ~admin_required(tok) THEN Reply(403, clerks)
    ELSE IF ~(Truthy(username) /\ Truthy(email) /\ Truthy(password))
        THEN Reply(400, clerks)
    ELSE IF ~validate_email(email) THEN Reply(400, clerks)
    ELSE IF ~validate_password(password) THEN Reply(400, clerks)
    ELSE IF ~Found(admins, tok.sub) THEN Reply(404, clerks)
    ELSE IF EmailTaken(email) THEN Reply(409, clerks)
    ELSE Reply(201,
               (next_clerk_id :>
                    [email |-> email, is_active |-> TRUE, admin_id |-> tok.sub,
                     store_id |-> NoneId])
               @@ clerks)

ClerkRegistration(tok, data) ==
    /\ Validate(tok, "access")
    /\ LET r == ClerkRegistrationResult(tok, data)
       IN /\ r.code = 201 => next_clerk_id <= MaxClerkId
          /\ clerks' = r.table
          /\ next_clerk_id' = IF r.code = 201 THEN next_clerk_id + 1
                               ELSE next_clerk_id
    /\ UNCHANGED <<identityVars, updating, receiving, creating, products, next_product_id, inventory,
                   next_record_id, sessionVars>>

\* ClerkResource.put, after jwt_required(); clerk_id is NoneId on the
\* /profile route.  Of the account's columns the model keeps is_active.
ClerkPutResult(tok, clerk_id, data) ==
    LET is_merchant == Found(merchants, tok.sub) /\ merchants[tok.sub].is_superuser
        is_admin == Found(admins, tok.sub)
        target == IF clerk_id = NoneId THEN tok.sub ELSE clerk_id
    IN
    IF clerk_id # NoneId /\ ~(is_merchant \/ is_admin) THEN Reply(403, clerks)
    ELSE IF ~Found(clerks, target) THEN Reply(404, clerks)
    ELSE LET is_bool == "is_active" \in DOMAIN data
                          /\ data["is_active"] \in {"true", "false"}
             is_active == data["is_active"] = "true"
         IN IF is_bool /\ (is_merchant \/ is_admin)
                THEN Reply(200, [clerks EXCEPT ![target].is_active = is_active])
            ELSE IF is_bool /\ is_active # clerks[target].is_active
                THEN Reply(403, clerks)
            ELSE Reply(200, clerks)

ClerkPut(tok, clerk_id, data) ==
    /\ Validate(tok, "access")
    /\ clerks' = ClerkPutResult(tok, clerk_id, data).table
    /\ UNCHANGED <<identityVars, updating, receiving, creating, next_clerk_id, products, next_product_id, inventory,
                   next_record_id, sessionVars>>

\* ClerkResource.delete, after jwt_required()
ClerkDeleteResult(tok, clerk_id) ==
    LET is_merchant == Found(merchants, tok.sub) /\ merchants[tok.sub].is_superuser
        is_admin == Found(admins, tok.sub)
    IN
    IF ~(is_merchant \/ is_admin) THEN Reply(403, clerks)
    ELSE IF ~Found(clerks, clerk_id) THEN Reply(404, clerks)
    ELSE Reply(204, [i \in DOMAIN clerks \ {clerk_id} |-> clerks[i]])

\* SetNullClerks with ondelete='CASCADE': the records of a deleted clerk
\* go with it.
CascadeClerks(table) ==
    [i \in {j \in DOMAIN inventory :
                inventory[j].clerk_id \in DOMAIN table \cup {NoneId}}
        |-> inventory[i]]

\* inventory_records.clerk_id: ForeignKey('clerks.id', ondelete='SET NULL')
SetNullClerks(table) ==
    [i \in DOMAIN inventory |->
        IF inventory[i].clerk_id \in DOMAIN table \cup {NoneId} THEN inventory[i]
        ELSE [inventory[i] EXCEPT !.clerk_id = NoneId]]

ClerkDelete(tok, clerk_id) ==
    /\ Validate(tok, "access")
    /\ LET r == ClerkDeleteResult(tok, clerk_id)
       IN /\ clerks' = r.table
          /\ inventory' = SetNullClerks(r.table)
    /\ UNCHANGED <<identityVars, updating, receiving, creating, next_clerk_id, products, next_product_id, next_record_id,
                   sessionVars>>

\* ------------------------------------------------------ session authority
\* UserLogin.post: the account an email names, merchants first, then
\* admins, then clerks; <<>> when there is none.
LoginUser(email) ==
    LET ms == {i \in DOMAIN merchants : merchants[i].email = email}
        as == {i \in DOMAIN admins : admins[i].email = email}
        cs == {i \in DOMAIN clerks : clerks[i].email = email}
    IN IF ms # {} THEN LET i == CHOOSE i \in ms : TRUE
                       IN <<[id |-> i, user_type |-> "merchant",
                             is_active |-> merchants[i].is_active]>>
       ELSE IF as # {} THEN LET i == CHOOSE i \in as : TRUE
                            IN <<[id |-> i, user_type |-> "admin",
                                  is_active |-> admins[i].is_active]>>
       ELSE IF cs # {} THEN LET i == CHOOSE i \in cs : TRUE
                            IN <<[id |-> i, user_type |-> "clerk",
                                  is_active |-> clerks[i].is_active]>>
       ELSE <<>>

\* UserLoginResult that does not look at is_active.
UserLoginResultAnyAccount(email, password_ok) ==
    IF ~validate_email(email) THEN 400
    ELSE IF LoginUser(email) = <<>> \/ ~password_ok THEN 401
    ELSE 200

\* UserLogin.post: the status code.  password_ok is the outcome of
\* user.check_password(password).
UserLoginResult(email, password_ok) ==
    LET user == LoginUser(email)
    IN IF ~validate_email(email) THEN 400
       ELSE IF user = <<>> \/ ~password_ok THEN 401
       ELSE IF ~user[1].is_active THEN 403
       ELSE 200

\* UserLogin.post: create_access_token and create_refresh_token
UserLogin(email, password_ok) ==
    /\ LET code == UserLoginResult(email, password_ok)
           user == LoginUser(email)[1]
       IN IF code = 200
          THEN /\ next_jti + 1 <= MaxJti
               /\ tokens' = tokens \cup
                      {Token(next_jti, user.id, user.user_type, "access"),
                       Token(next_jti + 1, user.id, user.user_type, "refresh")}
               /\ next_jti' = next_jti + 2
          ELSE UNCHANGED <<tokens, next_jti>>
    /\ UNCHANGED <<identityVars, updating, receiving, creating, next_clerk_id, clerks, products, next_product_id, inventory,
                   next_record_id, expired, blacklist>>

\* BlacklistAdd that keeps the latest logout only.
BlacklistReplace(jti) == {jti}

\* BlacklistAdd that revokes the whole login: the access token and the
\* refresh token created right after it.
BlacklistAddLogin(jti) == blacklist \cup {jti, jti + 1}

\* UserLogout.post: blacklist.add(jti)
BlacklistAdd(jti) == blacklist \cup {jti}

UserLogout(tok) ==
    /\ Validate(tok, "access")
    /\ blacklist' = BlacklistAdd(tok.jti)
    /\ UNCHANGED <<identityVars, updating, receiving, creating, next_clerk_id, clerks, products, next_product_id, inventory,
                   next_record_id, tokens, next_jti, expired>>

\* NewAccessToken minted without additional_claims.
NewAccessTokenUnclaimed(tok) == Token(next_jti, tok.sub, "none", "access")

\* TokenRefresh.post: create_access_token(identity=current_user_id,
\* additional_claims={"user_type": user_type})
NewAccessToken(tok) == Token(next_jti, tok.sub, tok.user_type, "access")

\* TokenRefresh.post, after jwt_required(refresh=True)
TokenRefresh(tok) ==
    /\ Validate(tok, "refresh")
    /\ next_jti <= MaxJti
    /\ tokens' = tokens \cup {NewAccessToken(tok)}
    /\ next_jti' = next_jti + 1
    /\ UNCHANGED <<identityVars, updating, receiving, creating, next_clerk_id, clerks, products, next_product_id, inventory,
                   next_record_id, expired, blacklist>>

\* JWT_ACCESS_TOKEN_EXPIRES / JWT_REFRESH_TOKEN_EXPIRES: a token's lifetime
\* passes.
Expire(tok) ==
    /\ tok \in tokens
    /\ tok.jti \notin expired
    /\ expired' = expired \cup {tok.jti}
    /\ UNCHANGED <<identityVars, updating, receiving, creating, next_clerk_id, clerks, products, next_product_id, inventory,
                   next_record_id, tokens, next_jti, blacklist>>

\* ------------------------------------------------------------ the inputs
RecordIds == 1..MaxRecordId
ProductIds == 1..MaxProductId

InventoryPostBodies ==
    BodiesOf([product_id |-> {"1", "2"},
              store_id |-> {"1", "2"},
              quantity_received |-> {"-1", "0", "1"},
              items_spoilt |-> {"1", "2"},
              payment_status |-> {"true"}], 5)

InventoryPutBodies ==
    BodiesOf([quantity_received |-> {"-1", "0", "1"},
              items_in_stock |-> {"-1", "0", "1", "abc"},
              items_spoilt |-> {"-1", "0", "1"},
              payment_status |-> {"true", "false"},
              buying_price_at_record |-> {"-1", "1"},
              selling_price_at_record |-> {"-1", "1"},
              product_id |-> {"2"}], MaxFields)

ProductPostBodies ==
    BodiesOf([name |-> {"a", "b"},
              buying_price |-> {"-1", "0", "1"},
              selling_price |-> {"-1", "0", "1"}], 3)

ProductPutBodies ==
    BodiesOf([name |-> {"a", "b"},
              buying_price |-> {"-1", "0", "1"},
              selling_price |-> {"-1", "0", "1"}], MaxFields)

\* Receiving one unit at store 1, spoilt or not.
ReceivingBodies ==
    {d \in InventoryPostBodies :
        /\ {"product_id", "store_id", "quantity_received"} \subseteq DOMAIN d
        /\ d["store_id"] = "1" /\ d["quantity_received"] = "1"
        /\ "payment_status" \notin DOMAIN d
        /\ Get(d, "items_spoilt", "1") = "1"}

\* Repricing a product.
RepricingBodies ==
    BodiesOf([buying_price |-> {"0", "1"}, selling_price |-> {"0", "1"}], MaxFields)

ClerkPutBodies == BodiesOf([is_active |-> {"true", "false"}], 1)

\* Receiving one unit of product 1 at either store.
ScopePostBodies ==
    BodiesOf([product_id |-> {"1"},
              store_id |-> {"1", "2"},
              quantity_received |-> {"1"}], 3)

\* Settling a record, correcting its stock, naming its product.
ScopePutBodies ==
    BodiesOf([payment_status |-> {"true"},
              items_in_stock |-> {"0", "2"},
              items_spoilt |-> {"2"},
              product_id |-> {"2"}], MaxFields)

Emails == {"m1", "a1", "c1", "c2", "nobody", "not-an-address"}

\* ------------------------------------------------------ the specifications
InitIdentities ==
    /\ merchants = InitMerchants
    /\ admins = InitAdmins
    /\ clerks = InitClerks
    /\ next_clerk_id = 3
    /\ stores = InitStores

\* Every account holds an access token.
InitLoggedIn ==
    /\ tokens = LoggedInTokens
    /\ next_jti = 7
    /\ expired = {}
    /\ blacklist = {}

\* Two products in the catalog, no inventory record yet.
InitStocked ==
    /\ InitIdentities
    /\ InitLoggedIn
    /\ products =
          (1 :> [name |-> "a", description |-> "null", buying_price |-> 1,
                 selling_price |-> 1, merchant_id |-> 1, is_active |-> TRUE]) @@
          (2 :> [name |-> "b", description |-> "null", buying_price |-> 1,
                 selling_price |-> 0, merchant_id |-> 2, is_active |-> TRUE])
    /\ next_product_id = 3
    /\ inventory = <<>>
    /\ next_record_id = 1
    /\ creating = {}
    /\ updating = {}
    /\ receiving = {}

\* The inventory ledger's handlers over a fixed catalog.
NextLedger ==
    \/ \E tok \in tokens, data \in InventoryPostBodies : InventoryPost(tok, data)
    \/ \E tok \in tokens, record_id \in RecordIds, data \in InventoryPutBodies :
          InventoryPut(tok, record_id, data)
    \/ \E tok \in tokens, record_id \in RecordIds : InventoryGet(tok, record_id)
    \/ \E tok \in tokens : InventoryList(tok)
    \/ \E tok \in tokens, record_id \in RecordIds : InventoryDelete(tok, record_id)

SpecLedger == InitStocked /\ [][NextLedger]_vars

\* Receiving stock while the catalog is repriced and pruned.
NextPricing ==
    \/ \E tok \in tokens, data \in ReceivingBodies : InventoryPost(tok, data)
    \/ \E tok \in tokens, product_id \in ProductIds, data \in RepricingBodies :
          ProductPut(tok, product_id, data)
    \/ \E tok \in tokens, product_id \in ProductIds : ProductDelete(tok, product_id)

SpecPricing == InitStocked /\ [][NextPricing]_vars

\* Naming and renaming products.
NamingPostBodies ==
    BodiesOf([name |-> {"a", "b"},
              buying_price |-> {"1"},
              selling_price |-> {"1"}], 3)

NamingPutBodies ==
    BodiesOf([name |-> {"a", "b"}, buying_price |-> {"0"}], MaxFields)

\* The catalog under concurrent creates, renames and deletes.
NextNaming ==
    \/ \E tok \in tokens, data \in NamingPostBodies : ProductPostBegin(tok, data)
    \/ \E req \in creating : ProductPostCommit(req)
    \/ \E tok \in tokens, product_id \in ProductIds, data \in NamingPutBodies :
          ProductPut(tok, product_id, data)
    \/ \E tok \in tokens, product_id \in ProductIds : ProductDelete(tok, product_id)

ClerkRegistrationBodies ==
    BodiesOf([username |-> {"clerk3"},
              email |-> {"c1", "c3", "not-an-address"},
              password |-> {"Str0ng!pw", "weak"}], 3)

\* The clerk accounts: registered, updated and deleted, while the clerks
\* receive stock.
NextStaff ==
    \/ \E tok \in tokens, data \in ReceivingBodies : InventoryPost(tok, data)
    \/ \E tok \in tokens, data \in ClerkRegistrationBodies :
          ClerkRegistration(tok, data)
    \/ \E tok \in tokens, clerk_id \in {NoneId} \cup (1..MaxClerkId),
          data \in ClerkPutBodies : ClerkPut(tok, clerk_id, data)
    \/ \E tok \in tokens, clerk_id \in 1..MaxClerkId : ClerkDelete(tok, clerk_id)

SpecStaff == InitStocked /\ [][NextStaff]_vars

\* Updates of a record racing with its delete.
NextRace ==
    \/ \E tok \in tokens, data \in ReceivingBodies : InventoryPost(tok, data)
    \/ \E tok \in tokens, record_id \in RecordIds, data \in ScopePutBodies :
          InventoryPutBegin(tok, record_id, data)
    \/ \E req \in updating : InventoryPutCommit(req)
    \/ \E tok \in tokens, record_id \in RecordIds : InventoryDelete(tok, record_id)

SpecRace == InitStocked /\ [][NextRace]_vars

\* Settling a record.
SettlingBodies == {d \in ScopePutBodies : DOMAIN d = {"payment_status"}}

\* Receiving one unit at store 1, none spoilt.
SoundBodies == {d \in ReceivingBodies : "items_spoilt" \notin DOMAIN d}

\* Records created, settled and deleted while products are deleted.
NextIntegrity ==
    \/ \E tok \in tokens, data \in SoundBodies : InventoryPostBegin(tok, data)
    \/ \E rec \in receiving : InventoryPostCommit(rec)
    \/ \E tok \in tokens, record_id \in RecordIds, data \in SettlingBodies :
          InventoryPut(tok, record_id, data)
    \/ \E tok \in tokens, record_id \in RecordIds : InventoryDelete(tok, record_id)
    \/ \E tok \in tokens, product_id \in ProductIds : ProductDelete(tok, product_id)

SpecIntegrity == InitStocked /\ [][NextIntegrity]_vars

\* Records received, then updated by every role, while clerk accounts are
\* deleted.
NextUpdate ==
    \/ \E tok \in tokens, data \in ScopePostBodies : InventoryPost(tok, data)
    \/ \E tok \in tokens, record_id \in RecordIds, data \in ScopePutBodies :
          InventoryPut(tok, record_id, data)
    \/ \E tok \in tokens, clerk_id \in DOMAIN InitClerks : ClerkDelete(tok, clerk_id)

SpecUpdate == InitStocked /\ [][NextUpdate]_vars

\* Numbers and values that are no numbers in the numeric fields.
ParsingInventoryPostBodies ==
    BodiesOf([product_id |-> {"1", "abc"},
              store_id |-> {"1"},
              quantity_received |-> {"1", "{}"},
              items_spoilt |-> {"0", "null"}], 4)

ParsingInventoryPutBodies ==
    BodiesOf([items_in_stock |-> {"0", "abc", "null"},
              items_spoilt |-> {"1", "[1]"},
              buying_price_at_record |-> {"2"}], MaxFields)

ParsingProductPostBodies ==
    BodiesOf([name |-> {"a", "b"},
              buying_price |-> {"1", "[1]"},
              selling_price |-> {"1", "abc", "null"}], 3)

ParsingProductPutBodies ==
    BodiesOf([buying_price |-> {"2", "abc", "[1]"},
              selling_price |-> {"2", "null"}], MaxFields)

\* Creates and updates of products and inventory records with such bodies.
NextParsing ==
    \/ \E tok \in tokens, data \in ParsingProductPostBodies : ProductPost(tok, data)
    \/ \E tok \in tokens, product_id \in ProductIds, data \in ParsingProductPutBodies :
          ProductPut(tok, product_id, data)
    \/ \E tok \in tokens, data \in ParsingInventoryPostBodies : InventoryPost(tok, data)
    \/ \E tok \in tokens, record_id \in RecordIds, data \in ParsingInventoryPutBodies :
          InventoryPut(tok, record_id, data)

\* Who may see and change which record: clerks of both stores receive
\* stock, every role reads and updates it, and clerk accounts are deleted.
NextScope ==
    \/ \E tok \in tokens, data \in ScopePostBodies : InventoryPost(tok, data)
    \/ \E tok \in tokens, record_id \in RecordIds, data \in ScopePutBodies :
          InventoryPut(tok, record_id, data)
    \/ \E tok \in tokens, record_id \in RecordIds : InventoryGet(tok, record_id)
    \/ \E tok \in tokens : InventoryList(tok)
    \/ \E tok \in tokens, clerk_id \in DOMAIN InitClerks : ClerkDelete(tok, clerk_id)

SpecScope == InitStocked /\ [][NextScope]_vars

\* The catalog: the tables as db.create_all() leaves them.
InitCatalog ==
    /\ InitIdentities
    /\ InitLoggedIn
    /\ products = <<>>
    /\ next_product_id = 1
    /\ inventory = <<>>
    /\ next_record_id = 1
    /\ creating = {}
    /\ updating = {}
    /\ receiving = {}

NextCatalog ==
    \/ \E tok \in tokens : ProductList(tok)
    \/ \E tok \in tokens, data \in ProductPostBodies : ProductPost(tok, data)
    \/ \E tok \in tokens, product_id \in ProductIds : ProductGet(tok, product_id)
    \/ \E tok \in tokens, product_id \in ProductIds, data \in ProductPutBodies :
          ProductPut(tok, product_id, data)
    \/ \E tok \in tokens, product_id \in ProductIds : ProductDelete(tok, product_id)
    \/ \E tok \in tokens, data \in ReceivingBodies : InventoryPost(tok, data)

SpecCatalog == InitCatalog /\ [][NextCatalog]_vars

SpecNaming == InitCatalog /\ [][NextNaming]_vars

SpecParsing == InitCatalog /\ [][NextParsing]_vars

\* The session authority: nobody has logged in yet.  ProductList stands
\* for the requests made with the tokens.
InitAuth ==
    /\ InitIdentities
    /\ tokens = {}
    /\ next_jti = 1
    /\ expired = {}
    /\ blacklist = {}
    /\ products = <<>>
    /\ next_product_id = 1
    /\ inventory = <<>>
    /\ next_record_id = 1
    /\ creating = {}
    /\ updating = {}
    /\ receiving = {}

NextAuth ==
    \/ \E email \in Emails, password_ok \in BOOLEAN : UserLogin(email, password_ok)
    \/ \E tok \in tokens : UserLogout(tok)
    \/ \E tok \in tokens : TokenRefresh(tok)
    \/ \E tok \in tokens : Expire(tok)
    \/ \E tok \in tokens, clerk_id \in {NoneId} \cup DOMAIN clerks,
          data \in ClerkPutBodies : ClerkPut(tok, clerk_id, data)
    \/ \E tok \in tokens : ProductList(tok)

SpecAuth == InitAuth /\ [][NextAuth]_vars

\* ------------------------------------------------------------- the claims
\* The field-permission table of the access control rules.
AllowedFields(user_type) ==
    CASE user_type = "admin" -> {"payment_status"}
      [] user_type = "clerk" -> {"items_in_stock", "items_spoilt"}
      [] OTHER -> {"quantity_received", "items_in_stock", "items_spoilt",
                   "payment_status", "buying_price_at_record",
                   "selling_price_at_record"}

\* C1: an Admin's or Clerk's inventory update that names a field outside
\* the role's allowed set (product_id included) is rejected and leaves
\* every stored record as it was.
C1_DisallowedFieldRejectsUpdate ==
    \A tok \in tokens, record_id \in DOMAIN inventory, data \in InventoryPutBodies :
        (/\ Validate(tok, "access")
         /\ tok.user_type \in {"admin", "clerk"}
         /\ DOMAIN data \ AllowedFields(tok.user_type) # {})
        => LET r == InventoryPutResult(tok, record_id, data)
           IN r.code # 200 /\ r.table = inventory

\* C2: a record that a step creates has items_in_stock = quantity_received
\* - items_spoilt and carries the prices its product had when the step
\* was taken.
C2_CreationDerivesStockAndPrices ==
    [][\A i \in DOMAIN inventory' \ DOMAIN inventory :
          LET r == inventory'[i]
          IN /\ r.items_in_stock = r.quantity_received - r.items_spoilt
             /\ Found(products, r.product_id)
             /\ r.buying_price_at_record = products[r.product_id].buying_price
             /\ r.selling_price_at_record = products[r.product_id].selling_price]_vars

\* A clerk has received one unit, spoilt, of a product that had been
\* repriced before.
C2_Witness ==
    \E i \in DOMAIN inventory :
        /\ inventory[i].clerk_id # NoneId
        /\ inventory[i].quantity_received = 1
        /\ inventory[i].items_spoilt = 1
        /\ inventory[i].items_in_stock = 0
        /\ inventory[i].product_id = 1
        /\ inventory[i].buying_price_at_record = 0

\* C3: a step that changes the catalog leaves the snapshot prices of every
\* record that stays stored as they were.
C3_SnapshotPricesKept ==
    [][products' # products =>
          \A i \in DOMAIN inventory \cap DOMAIN inventory' :
              /\ inventory'[i].buying_price_at_record
                    = inventory[i].buying_price_at_record
              /\ inventory'[i].selling_price_at_record
                    = inventory[i].selling_price_at_record]_vars

\* A record's product has been repriced since the record was made.
C3_Witness ==
    \E i \in DOMAIN inventory :
        /\ Found(products, inventory[i].product_id)
        /\ inventory[i].buying_price_at_record
              # products[inventory[i].product_id].buying_price
        /\ inventory[i].selling_price_at_record
              # products[inventory[i].product_id].selling_price

\* C4: a token whose jti is in the blacklist does not validate, and no
\* step takes a jti out of the blacklist or makes its token validate again.
C4_RevokedStaysInvalid ==
    [][\A tok \in tokens :
          tok.jti \in blacklist =>
              /\ ~Validate(tok, tok.kind)
              /\ tok.jti \in blacklist'
              /\ ~(Validate(tok, tok.kind))']_vars

\* Two tokens have been revoked by logout, one of them not yet expired.
C4_Witness ==
    /\ Cardinality(blacklist) = 2
    /\ \E tok \in tokens : tok.jti \in blacklist /\ tok.jti \notin expired

\* C5: deleting an inventory record is denied to every Admin and Clerk
\* token, whatever its identity, and the record stays stored.
C5_DeleteIsMerchantOnly ==
    \A tok \in tokens, record_id \in DOMAIN inventory :
        (Validate(tok, "access") /\ tok.user_type \in {"admin", "clerk"})
        => LET r == InventoryDeleteResult(tok, record_id)
           IN r.code = 403 /\ r.table = inventory

\* C6: an Admin without a store can neither get nor update any record.
C6_StorelessAdminDenied ==
    \A tok \in tokens, record_id \in DOMAIN inventory :
        (/\ Validate(tok, "access")
         /\ tok.user_type = "admin"
         /\ Found(admins, tok.sub)
         /\ admins[tok.sub].store_id = NoneId)
        => /\ InventoryGetResult(tok, record_id) # 200
           /\ \A data \in InventoryPutBodies :
                 InventoryPutResult(tok, record_id, data).table = inventory

\* C7: a principal whose account is inactive is rejected on every product
\* and inventory operation, also with a token that still validates.
C7_InactiveRejected ==
    \A tok \in tokens :
        (Validate(tok, "access") /\ HasAccount(tok) /\ ~Account(tok).is_active)
        => /\ ProductListResult(tok) # 200
           /\ InventoryListResult(tok).code # 200
           /\ \A product_id \in ProductIds :
                 /\ ProductGetResult(tok, product_id) # 200
                 /\ ProductDeleteResult(tok, product_id).code # 204
                 /\ \A data \in ProductPutBodies :
                       ProductPutResult(tok, product_id, data).code # 200
           /\ \A data \in ProductPostBodies : ProductPostResult(tok, data).code # 201
           /\ \A data \in InventoryPostBodies :
                 InventoryPostResult(tok, data).code # 201
           /\ \A record_id \in RecordIds :
                 /\ InventoryGetResult(tok, record_id) # 200
                 /\ InventoryDeleteResult(tok, record_id).code # 204
                 /\ \A data \in InventoryPutBodies :
                       InventoryPutResult(tok, record_id, data).code # 200

\* C8: a product delete succeeds only for a Merchant token whose identity
\* is the product's owning merchant; otherwise the product stays stored.
C8_ProductDeleteByOwnerOnly ==
    \A tok \in tokens, product_id \in DOMAIN products :
        Validate(tok, "access")
        => LET r == ProductDeleteResult(tok, product_id)
           IN IF tok.user_type = "merchant"
                 /\ products[product_id].merchant_id = tok.sub
              THEN TRUE
              ELSE r.code # 204 /\ r.table = products

\* C9: an inventory update that names none of the updatable fields is
\* answered with an error for every role.
C9_EmptyUpdateRejected ==
    \A tok \in tokens, record_id \in DOMAIN inventory, data \in InventoryPutBodies :
        (Validate(tok, "access") /\ DOMAIN data \cap AllowedFields("merchant") = {})
        => InventoryPutResult(tok, record_id, data).code # 200

\* C10: every stored record has non-negative quantity_received,
\* items_in_stock and items_spoilt.
C10_QuantitiesNonNegative ==
    \A i \in DOMAIN inventory :
        /\ inventory[i].quantity_received >= 0
        /\ inventory[i].items_in_stock >= 0
        /\ inventory[i].items_spoilt >= 0

\* C11: a Clerk's list is exactly the records whose clerk_id is the Clerk's
\* id, which are the records the Clerk created (a create stores the
\* creator's id and no step changes a clerk_id but to NULL); the Clerk can
\* get its own records; get and update of any other record, one whose
\* clerk_id was nulled included, are answered 403 and change nothing.
C11_ClerkSeesOwnRecordsOnly ==
    /\ [](\A tok \in tokens :
            (Validate(tok, "access") /\ tok.user_type = "clerk") =>
               /\ Found(clerks, tok.sub) => InventoryListResult(tok).code = 200
               /\ InventoryListResult(tok).code = 200 =>
                     InventoryListResult(tok).ids
                        = {i \in DOMAIN inventory : inventory[i].clerk_id = tok.sub}
               /\ \A data \in ScopePostBodies :
                     LET r == InventoryPostResult(tok, data)
                     IN r.code = 201 =>
                           /\ DOMAIN r.table \ DOMAIN inventory = {next_record_id}
                           /\ r.table[next_record_id].clerk_id = tok.sub
               /\ \A record_id \in DOMAIN inventory :
                     IF inventory[record_id].clerk_id = tok.sub /\ Found(clerks, tok.sub)
                     THEN InventoryGetResult(tok, record_id) = 200
                     ELSE /\ InventoryGetResult(tok, record_id) = 403
                          /\ \A data \in InventoryPutBodies :
                                LET r == InventoryPutResult(tok, record_id, data)
                                IN r.code = 403 /\ r.table = inventory)
    /\ [][\A i \in DOMAIN inventory \cap DOMAIN inventory' :
             inventory'[i].clerk_id \in {inventory[i].clerk_id, NoneId}]_vars

\* A record's clerk reference has been nulled by the delete of its clerk
\* while another clerk, holding a valid token, is still registered.
C11_Witness ==
    \E i \in DOMAIN inventory, tok \in tokens :
        /\ inventory[i].clerk_id = NoneId
        /\ Validate(tok, "access")
        /\ tok.user_type = "clerk"
        /\ Found(clerks, tok.sub)

\* The columns of an inventory record.
RecordFields == {"product_id", "store_id", "clerk_id", "quantity_received",
                 "items_in_stock", "items_spoilt", "payment_status",
                 "buying_price_at_record", "selling_price_at_record"}

\* C12: an Admin's update that succeeds sets payment_status to the value
\* sent and leaves every other field of the record, and every other
\* record, as stored; a Clerk's update that succeeds changes at most
\* items_in_stock and items_spoilt.
C12_UpdateChangesPermittedFieldsOnly ==
    \A tok \in {t \in tokens : Validate(t, "access") /\ t.user_type \in {"admin", "clerk"}},
       record_id \in DOMAIN inventory, data \in InventoryPutBodies :
        LET r == InventoryPutResult(tok, record_id, data)
            changed == {f \in RecordFields :
                          r.table[record_id][f] # inventory[record_id][f]}
        IN r.code = 200
           => /\ DOMAIN r.table = DOMAIN inventory
              /\ DOMAIN r.table[record_id] = RecordFields
              /\ \A i \in DOMAIN inventory \ {record_id} : r.table[i] = inventory[i]
              /\ tok.user_type = "admin" =>
                    /\ changed \subseteq {"payment_status"}
                    /\ "payment_status" \in DOMAIN data
                    /\ r.table[record_id].payment_status
                          = (data["payment_status"] = "true")
              /\ tok.user_type = "clerk" =>
                    changed \subseteq {"items_in_stock", "items_spoilt"}

\* An Admin of the record's store can settle a record that is unpaid and a
\* Clerk can correct the stock of a record of its own.
C12_Witness ==
    \E record_id \in DOMAIN inventory :
        /\ \E tok \in tokens, data \in ScopePutBodies :
              /\ Validate(tok, "access") /\ tok.user_type = "admin"
              /\ Found(admins, tok.sub)
              /\ admins[tok.sub].store_id = inventory[record_id].store_id
              /\ InventoryPutResult(tok, record_id, data).code = 200
              /\ InventoryPutResult(tok, record_id, data).table # inventory
        /\ \E tok \in tokens, data \in ScopePutBodies :
              /\ Validate(tok, "access") /\ tok.user_type = "clerk"
              /\ InventoryPutResult(tok, record_id, data).code = 200
              /\ InventoryPutResult(tok, record_id, data).table # inventory

\* C13: for a Clerk with an assigned store no create stores a record of
\* another store: a create naming another store leaves the records as
\* they were, and is answered 403 whenever the same request naming the
\* Clerk's own store would have been accepted; every stored record of a
\* Clerk with an assigned store is a record of that store.
C13_ClerkCreatesInOwnStoreOnly ==
    /\ \A tok \in tokens, data \in InventoryPostBodies :
          (/\ Validate(tok, "access")
           /\ tok.user_type = "clerk"
           /\ Found(clerks, tok.sub)
           /\ clerks[tok.sub].store_id # NoneId)
          => LET own == clerks[tok.sub].store_id
                 r == InventoryPostResult(tok, data)
                 named == PyNumber(Get(data, "store_id", "null"))
                 own_lit == IF own = 1 THEN "1" ELSE "2"
                 at_own == [k \in DOMAIN data \cup {"store_id"} |->
                               IF k = "store_id" THEN own_lit ELSE data[k]]
             IN /\ r.code = 201 =>
                      \A i \in DOMAIN r.table \ DOMAIN inventory :
                          r.table[i].store_id = own
                /\ (named.err = "" /\ named.val # own) =>
                      /\ r.code # 201
                      /\ r.table = inventory
                      /\ InventoryPostResult(tok, at_own).code = 201 => r.code = 403
    /\ \A i \in DOMAIN inventory :
          LET c == inventory[i].clerk_id
          IN (Found(clerks, c) /\ clerks[c].store_id # NoneId)
             => inventory[i].store_id = clerks[c].store_id

\* A Clerk with an assigned store has created a record and its create for
\* the other store is answered 403.
C13_Witness ==
    \E i \in DOMAIN inventory, tok \in tokens, data \in ScopePostBodies :
        /\ Validate(tok, "access")
        /\ tok.user_type = "clerk"
        /\ inventory[i].clerk_id = tok.sub
        /\ Found(clerks, tok.sub)
        /\ clerks[tok.sub].store_id # NoneId
        /\ InventoryPostResult(tok, data).code = 403

\* C14: for an Admin without an assigned store the list of inventory
\* records is answered 403, not 200 with an empty list, and every create
\* is answered 403 and stores no record.
C14_StorelessAdminListAndCreateDenied ==
    \A tok \in tokens :
        (/\ Validate(tok, "access")
         /\ tok.user_type = "admin"
         /\ Found(admins, tok.sub)
         /\ admins[tok.sub].store_id = NoneId)
        => /\ InventoryListResult(tok).code = 403
           /\ InventoryListResult(tok).ids = {}
           /\ \A data \in InventoryPostBodies :
                 /\ InventoryPostResult(tok, data).code = 403
                 /\ InventoryPostResult(tok, data).table = inventory

\* A record is stored while an Admin without a store holds a valid token.
C14_Witness ==
    /\ inventory # <<>>
    /\ \E tok \in tokens :
          /\ Validate(tok, "access")
          /\ tok.user_type = "admin"
          /\ Found(admins, tok.sub)
          /\ admins[tok.sub].store_id = NoneId

\* The stored products that carry a name, but for one id.
Named(name, except_id) ==
    {i \in DOMAIN products \ {except_id} : products[i].name = name}

\* C15: no two stored products have the same name; a create naming a
\* stored product's name stores nothing and, once past validation, is
\* answered 409, also when the name was taken by a concurrent create after
\* the request was validated (a validated create is answered 201 exactly
\* when its name is free at its commit); an update that would give a
\* product the name of another one is answered 409 and changes no product;
\* a step that adds a product leaves the stored ones as they were.
C15_ProductNamesUnique ==
    /\ [](/\ \A i, j \in DOMAIN products :
                i # j => products[i].name # products[j].name
          /\ \A tok \in tokens, data \in NamingPostBodies :
                (/\ Validate(tok, "access")
                 /\ "name" \in DOMAIN data
                 /\ Named(data["name"], NoneId) # {})
                => /\ ProductPostResult(tok, data).code # 201
                   /\ ProductPostResult(tok, data).table = products
          /\ \A req \in creating :
                LET r == ProductPostResult(req.tok, req.data)
                IN IF Named(req.data["name"], NoneId) # {}
                   THEN r.code = 409 /\ r.table = products
                   ELSE r.code = 201
          /\ \A tok \in tokens, product_id \in DOMAIN products,
                 data \in NamingPutBodies :
                (/\ Validate(tok, "access")
                 /\ "name" \in DOMAIN data
                 /\ Named(data["name"], product_id) # {})
                => LET r == ProductPutResult(tok, product_id, data)
                   IN /\ r.code \in {403, 409}
                      /\ r.table = products
                      /\ ProductPutResult(tok, product_id, <<>>).code = 200
                            => r.code = 409)
    /\ [][DOMAIN products' \ DOMAIN products # {} =>
             \A i \in DOMAIN products :
                 i \in DOMAIN products' /\ products'[i] = products[i]]_vars

\* A create that was validated while its name was free waits for its
\* commit after a concurrent create has taken the name.
C15_Witness ==
    \E req \in creating, i \in DOMAIN products :
        /\ products[i].name = req.data["name"]
        /\ next_product_id <= MaxProductId
        /\ ProductPostResult(req.tok, req.data).code = 409

\* The principals the access rules let update a product: the Merchant that
\* owns it and the Admins of that Merchant.
MayUpdateProduct(tok, product) ==
    \/ tok.user_type = "merchant" /\ tok.sub = product.merchant_id
    \/ /\ tok.user_type = "admin"
       /\ Found(admins, tok.sub)
       /\ admins[tok.sub].merchant_id = product.merchant_id

\* C16: a product update is answered 200 only for the owning Merchant or
\* an Admin of the owning Merchant; for every Clerk and for a Merchant or
\* Admin of another merchant it is answered 403 and changes no product.
C16_ProductUpdateByOwnerScopeOnly ==
    \A tok \in tokens, product_id \in DOMAIN products, data \in ProductPutBodies :
        Validate(tok, "access")
        => LET r == ProductPutResult(tok, product_id, data)
           IN IF MayUpdateProduct(tok, products[product_id])
              THEN r.code # 200 => r.table = products
              ELSE r.code = 403 /\ r.table = products

\* A product is stored that an Admin of its merchant can reprice and that
\* the other merchant's Admin, the other Merchant and a Clerk cannot.
C16_Witness ==
    \E product_id \in DOMAIN products, data \in NamingPutBodies :
        /\ \E tok \in tokens :
              /\ Validate(tok, "access") /\ tok.user_type = "admin"
              /\ ProductPutResult(tok, product_id, data).code = 200
              /\ ProductPutResult(tok, product_id, data).table # products
        /\ \A user_type \in {"merchant", "admin", "clerk"} :
              \E tok \in tokens :
                 /\ Validate(tok, "access") /\ tok.user_type = user_type
                 /\ ProductPutResult(tok, product_id, data).code = 403

\* C17: every stored product has non-negative prices, and a Merchant's
\* create (an owner's update) that gives prices is accepted when both are
\* non-negative, zero included, and answered 400 when one is negative.
C17_NonNegativePricesAccepted ==
    /\ \A i \in DOMAIN products :
          products[i].buying_price >= 0 /\ products[i].selling_price >= 0
    /\ \A tok \in tokens, data \in ProductPostBodies :
          (/\ Validate(tok, "access")
           /\ tok.user_type = "merchant"
           /\ DOMAIN data = {"name", "buying_price", "selling_price"})
          => LET bp == PyNumber(data["buying_price"])
                 sp == PyNumber(data["selling_price"])
                 r == ProductPostResult(tok, data)
             IN IF bp.err = "" /\ sp.err = "" /\ bp.val >= 0 /\ sp.val >= 0
                THEN r.code \in {201, 409}
                ELSE r.code = 400 /\ r.table = products
    /\ \A tok \in tokens, product_id \in DOMAIN products, data \in ProductPutBodies :
          (/\ Validate(tok, "access")
           /\ tok.user_type = "merchant"
           /\ tok.sub = products[product_id].merchant_id
           /\ DOMAIN data \subseteq {"buying_price", "selling_price"})
          => LET r == ProductPutResult(tok, product_id, data)
             IN IF \A k \in DOMAIN data : PyNumber(data[k]).err = ""
                                          /\ PyNumber(data[k]).val >= 0
                THEN r.code = 200
                ELSE r.code = 400 /\ r.table = products

\* C18: a step that issues an access token alone (a refresh; a login
\* issues a pair) is taken only while a refresh token that is unexpired
\* and not revoked is held, and the new access token has that token's
\* subject and role claim and a jti that no issued token has and that is
\* not in the blacklist; a token that does not validate as a refresh token
\* (an access token, an expired or a revoked one) is not accepted.
C18_RefreshPreservesIdentity ==
    /\ [][\A t \in tokens' \ tokens :
             tokens' \ tokens = {t} =>
                /\ t.kind = "access"
                /\ t.jti \notin blacklist'
                /\ \A p \in tokens : p.jti # t.jti
                /\ \E p \in tokens :
                      /\ p.kind = "refresh"
                      /\ p.jti \notin expired
                      /\ p.jti \notin blacklist
                      /\ t.sub = p.sub
                      /\ t.user_type = p.user_type]_vars
    /\ [](\A p \in tokens :
            (p.kind # "refresh" \/ p.jti \in expired \/ p.jti \in blacklist)
            => ~ENABLED TokenRefresh(p))

\* An access token has been issued by a refresh after the access token of
\* the same login was revoked.
C18_Witness ==
    \E t \in tokens, p \in tokens :
        /\ t.kind = "access" /\ p.kind = "refresh"
        /\ t.jti > p.jti
        /\ t.sub = p.sub /\ t.user_type = p.user_type
        /\ \A q \in tokens : q.kind = "refresh" => q.jti # t.jti + 1
        /\ p.jti - 1 \in blacklist
        /\ t.jti \notin blacklist

\* C19: a clerk registration is answered 201 only for a token whose role
\* claim is admin, and the clerk it stores has the requesting Admin's id as
\* its admin_id; a Merchant or Clerk token is never answered 201 and
\* leaves the clerks as they were, whatever its identity.
C19_ClerkRegisteredByAdminOnly ==
    \A tok \in tokens, data \in ClerkRegistrationBodies :
        Validate(tok, "access")
        => LET r == ClerkRegistrationResult(tok, data)
           IN IF tok.user_type = "admin"
              THEN r.code = 201 =>
                      \A i \in DOMAIN r.table \ DOMAIN clerks :
                          r.table[i].admin_id = tok.sub
              ELSE r.code # 201 /\ r.table = clerks

\* C20: a login for an account whose is_active is false is answered 403
\* when the password is right and 401 when it is wrong, a well-formed
\* unknown email is answered 401, and a step that issues a refresh token (a login)
\* issues its tokens to an account that is active.
C20_InactiveLoginRefused ==
    /\ [](\A email \in Emails :
            LET user == LoginUser(email)
            IN /\ validate_email(email) => UserLoginResult(email, FALSE) = 401
               /\ (validate_email(email) /\ user = <<>>)
                     => UserLoginResult(email, TRUE) = 401
               /\ (user # <<>> /\ ~user[1].is_active)
                     => UserLoginResult(email, TRUE) = 403)
    /\ [][(\E t \in tokens' \ tokens : t.kind = "refresh") =>
             \A t \in tokens' \ tokens : HasAccount(t) /\ Account(t).is_active]_vars

\* An account that logged in while active has been deactivated.
C20_Witness ==
    \E email \in Emails, tok \in tokens :
        /\ LoginUser(email) # <<>>
        /\ ~LoginUser(email)[1].is_active
        /\ tok.kind = "refresh"
        /\ tok.sub = LoginUser(email)[1].id
        /\ tok.user_type = LoginUser(email)[1].user_type
        /\ next_jti + 1 <= MaxJti

\* C21: when an inventory or a product update returns a validation error,
\* the handler has assigned no field of the row it loaded (the session's
\* copy equals the stored row) and the stored rows are unchanged.
C21_ValidationBeforeAssignment ==
    /\ \A tok \in tokens, record_id \in DOMAIN inventory, data \in InventoryPutBodies :
          LET st == InventoryPutSteps(tok, inventory[record_id], data)
          IN (Validate(tok, "access") /\ st.ret = 400)
             => /\ st.rec = inventory[record_id]
                /\ InventoryPutResult(tok, record_id, data).table = inventory
    /\ \A tok \in tokens, product_id \in DOMAIN products, data \in ProductPutBodies :
          LET st == ProductPutSteps(products[product_id], data)
          IN (/\ Validate(tok, "access")
              /\ ProductPutResult(tok, product_id, data).code = 400)
             => /\ st.rec = products[product_id]
                /\ ProductPutResult(tok, product_id, data).table = products

\* C22: an update whose record is deleted between its load and its commit
\* is answered 404, never 500, and an update that commits is answered 200
\* on a row that exists; no commit stores a row under an id that is not
\* stored.
C22_UpdateRacingDeleteIsNotFound ==
    \A req \in updating :
        LET r == InventoryPutCommitResult(req)
        IN /\ r.code = IF Found(inventory, req.record_id) THEN 200 ELSE 404
           /\ DOMAIN r.table = DOMAIN inventory

\* A body holds a value that is no number in one of the numeric fields.
Unparsable(data, keys) ==
    \E k \in keys \cap DOMAIN data : PyNumber(data[k]).err # ""

\* C23: a create or an update of a product or an inventory record whose
\* numeric field holds a non-numeric string, null, a list or an object is
\* answered 400 (or refused 403/404 before the body is read), never 500
\* and never accepted, and leaves the stored rows unchanged.
C23_UnparsableNumberIsValidationError ==
    /\ \A tok \in tokens, data \in ParsingInventoryPostBodies :
          (/\ Validate(tok, "access")
           /\ Unparsable(data, {"product_id", "store_id", "quantity_received",
                                "items_spoilt"}))
          => /\ InventoryPostResult(tok, data).code \in {400, 403, 404}
             /\ InventoryPostResult(tok, data).table = inventory
    /\ \A tok \in tokens, record_id \in RecordIds, data \in ParsingInventoryPutBodies :
          (/\ Validate(tok, "access")
           /\ Unparsable(data, {"quantity_received", "items_in_stock", "items_spoilt",
                                "buying_price_at_record", "selling_price_at_record"}))
          => /\ InventoryPutResult(tok, record_id, data).code \in {400, 403, 404}
             /\ InventoryPutResult(tok, record_id, data).table = inventory
    /\ \A tok \in tokens, data \in ParsingProductPostBodies :
          (/\ Validate(tok, "access")
           /\ Unparsable(data, {"buying_price", "selling_price"}))
          => /\ ProductPostResult(tok, data).code \in {400, 403, 404}
             /\ ProductPostResult(tok, data).table = products
    /\ \A tok \in tokens, product_id \in ProductIds, data \in ParsingProductPutBodies :
          (/\ Validate(tok, "access")
           /\ Unparsable(data, {"buying_price", "selling_price"}))
          => /\ ProductPutResult(tok, product_id, data).code \in {400, 403, 404}
             /\ ProductPutResult(tok, product_id, data).table = products

\* C24: a logout adds exactly the jti of the access token it was called
\* with to the blacklist and changes nothing else: every other token that
\* was valid is still valid after it, the refresh token of the same login
\* included, and a valid refresh token always mints an access token that
\* is neither revoked nor expired.
C24_LogoutRevokesOneToken ==
    /\ [][blacklist' # blacklist =>
             \E tok \in tokens :
                 /\ Validate(tok, "access")
                 /\ blacklist' = blacklist \cup {tok.jti}
                 /\ tokens' = tokens /\ expired' = expired /\ next_jti' = next_jti
                 /\ \A t \in tokens \ {tok} :
                        Validate(t, t.kind) => Validate(t, t.kind)']_vars
    /\ [](\A r \in tokens :
             Validate(r, "refresh")
             => /\ NewAccessToken(r).kind = "access"
                /\ NewAccessToken(r).jti \notin blacklist \cup expired
                /\ NewAccessToken(r).sub = r.sub)

\* An access token has been logged out, the refresh token of its login is
\* still valid, and an access token minted from a refresh token is valid.
C24_Witness ==
    \E a \in tokens, r \in tokens, n \in tokens :
        /\ a.kind = "access" /\ a.jti \in blacklist
        /\ r.jti = a.jti + 1 /\ r.sub = a.sub /\ r.user_type = a.user_type
        /\ Validate(r, "refresh")
        /\ n.jti > r.jti /\ n.sub = a.sub /\ n.user_type = a.user_type
        /\ Validate(n, "access")
        /\ ~\E x \in tokens : x.kind = "refresh" /\ x.jti = n.jti + 1

\* C25: in every reachable state each stored inventory record names a
\* product and a store that are stored; in particular no record of a
\* deleted product remains.
C25_ReferentialIntegrity ==
    \A record_id \in DOMAIN inventory :
        /\ Found(products, inventory[record_id].product_id)
        /\ inventory[record_id].store_id \in stores

\* A product has been deleted while a create naming it was in flight, and
\* a record of the other product is stored.
C25_Witness ==
    /\ \E rec \in receiving : ~Found(products, rec.product_id)
    /\ inventory # <<>>
    /\ Cardinality(DOMAIN products) < MaxProductId

\* C26: a step that deletes a Clerk deletes no inventory record: the same
\* record ids are stored after it, the records of the deleted Clerk have a
\* null clerk reference, every other clerk reference is as it was, and
\* every other field of every record is unchanged.
C26_ClerkDeleteKeepsRecords ==
    [][DOMAIN clerks' # DOMAIN clerks /\ DOMAIN clerks' \subseteq DOMAIN clerks
        => /\ DOMAIN inventory' = DOMAIN inventory
           /\ \A i \in DOMAIN inventory :
                 /\ \A f \in RecordFields \ {"clerk_id"} :
                        inventory'[i][f] = inventory[i][f]
                 /\ inventory'[i].clerk_id =
                        IF inventory[i].clerk_id \in DOMAIN clerks \ DOMAIN clerks'
                        THEN NoneId ELSE inventory[i].clerk_id]_vars

\* The Clerk who received a record has been deleted: the record is stored
\* with its quantities and no clerk reference.
C26_Witness ==
    \E i \in DOMAIN inventory :
        /\ inventory[i].clerk_id = NoneId
        /\ inventory[i].quantity_received = 1
        /\ Found(products, inventory[i].product_id)
        /\ Cardinality(DOMAIN clerks) < Cardinality(DOMAIN InitClerks)

====
